---- MODULE Spec2Model ----
(***************************************************************************)
(* Model of bf_SATsolver.cpp: a DIMACS reader (parseDIMACS), the three     *)
(* analyses (checkConflict, findUnitClauses, findPureLiterals), the        *)
(* recursive driver (solve) and main.                                      *)
(*                                                                         *)
(* The recursion of solve is an explicit stack of frames; a frame's field  *)
(* `at` is the position of that call in the body of solve.  Variables are  *)
(* numbered 1..numVars and assignment[v] is the C++ assignment[v-1].       *)
(***************************************************************************)
EXTENDS Integers, Sequences, FiniteSets, TLC

\* Bounds of the model.
MaxVar     == 2    \* largest variable index on an input line
MaxLen     == 3    \* most literals on one clause line
MaxClauses == 3    \* most clauses stored in problem.clauses

VARIABLES
    pc,            \* "parse" | "main" | "solve" | "done" | "crashed" | "pure"
    headerFound,   \* parseDIMACS: headerFound
    numVars,       \* problem.numVars
    clauses,       \* problem.clauses
    assignment,    \* main: assignment (<< >> before it is constructed)
    stack,         \* the active calls of solve, outermost first
    ret,           \* the value returned by the call of solve that just returned
    result,        \* main: result (FALSE until solve has returned to main)
    coutStatus,    \* the "s ..." line written to cout ("" when none)
    coutValues,    \* the numbers of the "v ..." line written to cout
    exitCode,      \* the exit status of the process (-1 while running)
    parsed,        \* history: parseDIMACS has returned
    emptyLine,     \* history: a clause line without literals was read after the header
    oobRead,       \* history: the tautology scan read outside the clause
    threw,         \* history: an exception reached the handlers of main
    solveInvoked,  \* history: main has called solve
    fnResult       \* the analysis called last on (clauses, assignment) and the value it returned

vars == <<pc, headerFound, numVars, clauses, assignment, stack, ret, result,
          coutStatus, coutValues, exitCode, parsed, emptyLine, oobRead, threw,
          solveInvoked, fnResult>>

-----------------------------------------------------------------------------
\* Arithmetic helpers

Abs(x) == IF x < 0 THEN -x ELSE x

Literals == { l \in (-MaxVar)..MaxVar : l # 0 }

RECURSIVE SeqsUpTo(_, _)
SeqsUpTo(S, n) ==
    IF n = 0 THEN { << >> }
    ELSE LET shorter == SeqsUpTo(S, n - 1)
         IN  shorter \cup { Append(s, x) : s \in { t \in shorter : Len(t) = n - 1 }, x \in S }

\* The literal sequences a clause line can carry (before the terminating 0).
RawClauses == SeqsUpTo(Literals, MaxLen)

\* The variable counts a `p cnf <numVars> <numClauses>` line can declare
\* (numVars is a signed int and the line is not validated).
DeclaredVars == (-1)..MaxVar

Front(s) == SubSeq(s, 1, Len(s) - 1)
Top(s) == s[Len(s)]

-----------------------------------------------------------------------------
\* parseDIMACS: one clause line

\* ScanVars comparing lit itself, not abs(lit), with numVars.
RECURSIVE ScanVarsSigned(_, _, _)
ScanVarsSigned(raw, i, n) ==
    IF i > Len(raw) THEN n
    ELSE ScanVarsSigned(raw, i + 1, IF raw[i] > n THEN raw[i] ELSE n)

\* The loop `while (iss >> lit && lit != 0)`: numVars after the line was read.
RECURSIVE ScanVars(_, _, _)
ScanVars(raw, i, n) ==
    IF i > Len(raw) THEN n
    ELSE ScanVars(raw, i + 1, IF Abs(raw[i]) > n THEN Abs(raw[i]) ELSE n)

\* std::sort on the clause (ascending integer order), as an insertion sort.
RECURSIVE InsertSorted(_, _)
InsertSorted(x, s) ==
    IF s = << >> THEN << x >>
    ELSE IF x <= Head(s) THEN << x >> \o s
    ELSE << Head(s) >> \o InsertSorted(x, Tail(s))

RECURSIVE SortClause(_)
SortClause(s) ==
    IF s = << >> THEN << >> ELSE InsertSorted(Head(s), SortClause(Tail(s)))

\* std::unique followed by erase: drops every element equal to its predecessor.
RECURSIVE UniqueClause(_)
UniqueClause(s) ==
    IF Len(s) <= 1 THEN s
    ELSE IF s[1] = s[2] THEN UniqueClause(Tail(s))
    ELSE << s[1] >> \o UniqueClause(Tail(s))

\* The scan `for (i = 0; i < clause.size() - 1; i++) if (clause[i] == -clause[i+1])`
\* on a clause with at least one literal.
TautologyScan(clause) ==
    \E i \in 1..(Len(clause) - 1) : clause[i] = -clause[i + 1]

\* The outcomes of the same scan on a clause without literals: clause.size() - 1
\* wraps to the largest size_t, so the loop reads clause[0] and clause[1] of an
\* empty vector.  The read can fault, or the garbage read can make the scan
\* report a tautology or not.
EmptyScanOutcomes == { "crash", "tautology", "stored" }

-----------------------------------------------------------------------------
\* The analyses

LitSatisfied(lit, value) == (lit > 0 /\ value > 0) \/ (lit < 0 /\ value < 0)

\* ConflictScan without the `value == 0` test: an unassigned literal counts as
\* falsified.
RECURSIVE ConflictScanNoUndecided(_, _, _)
ConflictScanNoUndecided(clause, a, i) ==
    IF i > Len(clause) THEN [satisfied |-> FALSE, undecided |-> FALSE]
    ELSE LET lit == clause[i]
             var == Abs(lit)
         IN  IF var > Len(a) THEN [satisfied |-> FALSE, undecided |-> TRUE]
             ELSE IF LitSatisfied(lit, a[var]) THEN [satisfied |-> TRUE, undecided |-> FALSE]
             ELSE ConflictScanNoUndecided(clause, a, i + 1)

\* checkConflict, inner loop from literal i on: what the loop leaves in
\* (satisfied, undecided).
RECURSIVE ConflictScan(_, _, _)
ConflictScan(clause, a, i) ==
    IF i > Len(clause) THEN [satisfied |-> FALSE, undecided |-> FALSE]
    ELSE LET lit == clause[i]
             var == Abs(lit)
         IN  IF var > Len(a) THEN [satisfied |-> FALSE, undecided |-> TRUE]
             ELSE IF a[var] = 0 THEN [satisfied |-> FALSE, undecided |-> TRUE]
             ELSE IF LitSatisfied(lit, a[var]) THEN [satisfied |-> TRUE, undecided |-> FALSE]
             ELSE ConflictScan(clause, a, i + 1)

\* ConflictFrom with the outer loop stopping one clause early.
RECURSIVE ConflictFromSkipsLast(_, _, _)
ConflictFromSkipsLast(cls, a, k) ==
    IF k >= Len(cls) THEN FALSE
    ELSE LET r == ConflictScan(cls[k], a, 1)
         IN  IF ~r.satisfied /\ ~r.undecided THEN TRUE
             ELSE ConflictFromSkipsLast(cls, a, k + 1)

\* checkConflict, outer loop from clause k on.
RECURSIVE ConflictFrom(_, _, _)
ConflictFrom(cls, a, k) ==
    IF k > Len(cls) THEN FALSE
    ELSE LET r == ConflictScan(cls[k], a, 1)
         IN  IF ~r.satisfied /\ ~r.undecided THEN TRUE
             ELSE ConflictFrom(cls, a, k + 1)

checkConflict(cls, a) == ConflictFrom(cls, a, 1)

\* UnitScan that keeps the first unassigned literal when it meets a second one.
RECURSIVE UnitScanKeepsFirst(_, _, _, _)
UnitScanKeepsFirst(clause, a, i, unassignedLit) ==
    IF i > Len(clause) THEN [satisfied |-> FALSE, unassignedLit |-> unassignedLit]
    ELSE LET lit == clause[i]
             value == a[Abs(lit)]
         IN  IF LitSatisfied(lit, value) THEN [satisfied |-> TRUE, unassignedLit |-> unassignedLit]
             ELSE IF value = 0 /\ unassignedLit = 0
                  THEN UnitScanKeepsFirst(clause, a, i + 1, lit)
                  ELSE UnitScanKeepsFirst(clause, a, i + 1, unassignedLit)

\* findUnitClauses, inner loop from literal i on with the current unassignedLit:
\* what the loop leaves in (satisfied, unassignedLit).
RECURSIVE UnitScan(_, _, _, _)
UnitScan(clause, a, i, unassignedLit) ==
    IF i > Len(clause) THEN [satisfied |-> FALSE, unassignedLit |-> unassignedLit]
    ELSE LET lit == clause[i]
             value == a[Abs(lit)]
         IN  IF LitSatisfied(lit, value) THEN [satisfied |-> TRUE, unassignedLit |-> unassignedLit]
             ELSE IF value = 0
                  THEN IF unassignedLit # 0
                       THEN [satisfied |-> FALSE, unassignedLit |-> 0]
                       ELSE UnitScan(clause, a, i + 1, lit)
                  ELSE UnitScan(clause, a, i + 1, unassignedLit)

\* UnitsFrom without the `!satisfied` test after the scan.
RECURSIVE UnitsFromIgnoresSatisfied(_, _, _)
UnitsFromIgnoresSatisfied(cls, a, k) ==
    IF k > Len(cls) THEN << >>
    ELSE LET r == UnitScan(cls[k], a, 1, 0)
         IN  (IF r.unassignedLit # 0 THEN << r.unassignedLit >> ELSE << >>)
             \o UnitsFromIgnoresSatisfied(cls, a, k + 1)

RECURSIVE UnitsFrom(_, _, _)
UnitsFrom(cls, a, k) ==
    IF k > Len(cls) THEN << >>
    ELSE LET r == UnitScan(cls[k], a, 1, 0)
         IN  (IF ~r.satisfied /\ r.unassignedLit # 0 THEN << r.unassignedLit >> ELSE << >>)
             \o UnitsFrom(cls, a, k + 1)

findUnitClauses(cls, a) == UnitsFrom(cls, a, 1)

\* ClauseSatisfied that never finds a satisfied literal.
ClauseSatisfiedNever(clause, a) == FALSE

\* findPureLiterals, first inner loop: the clause has a satisfied literal.
ClauseSatisfied(clause, a) ==
    \E i \in 1..Len(clause) : LitSatisfied(clause[i], a[Abs(clause[i])])

\* findPureLiterals: posAppears / negAppears after the loop over the clauses,
\* as the sets of variables whose flag is set.
posAppears(cls, a) ==
    { v \in 1..Len(a) :
        \E k \in 1..Len(cls) :
            /\ ~ClauseSatisfied(cls[k], a)
            /\ \E i \in 1..Len(cls[k]) : cls[k][i] = v /\ a[v] = 0 }

negAppears(cls, a) ==
    { v \in 1..Len(a) :
        \E k \in 1..Len(cls) :
            /\ ~ClauseSatisfied(cls[k], a)
            /\ \E i \in 1..Len(cls[k]) : cls[k][i] = -v /\ a[v] = 0 }

\* PureFrom that reports a variable by posAppears alone and by negAppears alone.
RECURSIVE PureFromOneFlag(_, _, _, _)
PureFromOneFlag(cls, a, n, var) ==
    IF var > n THEN << >>
    ELSE (IF a[var] = 0
          THEN IF var \in posAppears(cls, a) THEN << var >>
               ELSE IF var \in negAppears(cls, a) THEN << -var >>
               ELSE << >>
          ELSE << >>)
         \o PureFromOneFlag(cls, a, n, var + 1)

\* findPureLiterals, final loop `for (var = 1; var <= numVars; var++)`.
RECURSIVE PureFrom(_, _, _, _)
PureFrom(cls, a, n, var) ==
    IF var > n THEN << >>
    ELSE (IF a[var] = 0
          THEN IF var \in posAppears(cls, a) /\ var \notin negAppears(cls, a) THEN << var >>
               ELSE IF var \notin posAppears(cls, a) /\ var \in negAppears(cls, a) THEN << -var >>
               ELSE << >>
          ELSE << >>)
         \o PureFrom(cls, a, n, var + 1)

findPureLiterals(cls, a, n) == PureFrom(cls, a, n, 1)


-----------------------------------------------------------------------------
\* solve: the pieces of its body

\* Restore that replays nothing.
RestoreNothing(a, saved, i) == a

\* The undo loops `for (auto& p : saved) assignment[p.first] = p.second`.
\* An entry of saved is <<var, prior value>>.
RECURSIVE Restore(_, _, _)
Restore(a, saved, i) ==
    IF i > Len(saved) THEN a
    ELSE Restore([a EXCEPT ![saved[i][1]] = saved[i][2]], saved, i + 1)

\* UnitLoop without the checkConflict after each assignment.
RECURSIVE UnitLoopNoRecheck(_, _, _, _, _)
UnitLoopNoRecheck(cls, lits, i, a, saved) ==
    IF i > Len(lits) THEN [conflict |-> FALSE, a |-> a, saved |-> saved]
    ELSE LET lit == lits[i]
             var == Abs(lit)
         IN  IF a[var] = 0
             THEN UnitLoopNoRecheck(cls, lits, i + 1,
                                    [a EXCEPT ![var] = IF lit > 0 THEN 1 ELSE -1],
                                    Append(saved, << var, 0 >>))
             ELSE UnitLoopNoRecheck(cls, lits, i + 1, a, saved)

\* The unit propagation loop over unitLiterals from position i on: the
\* assignment and undo list it leaves, and whether a re-check found a conflict.
RECURSIVE UnitLoop(_, _, _, _, _)
UnitLoop(cls, lits, i, a, saved) ==
    IF i > Len(lits) THEN [conflict |-> FALSE, a |-> a, saved |-> saved]
    ELSE LET lit == lits[i]
             var == Abs(lit)
         IN  IF a[var] = 0
             THEN LET saved2 == Append(saved, << var, 0 >>)
                      a2 == [a EXCEPT ![var] = IF lit > 0 THEN 1 ELSE -1]
                  IN  IF checkConflict(cls, a2)
                      THEN [conflict |-> TRUE, a |-> Restore(a2, saved2, 1), saved |-> saved2]
                      ELSE UnitLoop(cls, lits, i + 1, a2, saved2)
             ELSE UnitLoop(cls, lits, i + 1, a, saved)

\* The pure literal loop over pureLiterals from position i on.
RECURSIVE PureLoop(_, _, _, _)
PureLoop(lits, i, a, saved) ==
    IF i > Len(lits) THEN [a |-> a, saved |-> saved]
    ELSE LET lit == lits[i]
             var == Abs(lit)
         IN  IF a[var] = 0
             THEN PureLoop(lits, i + 1, [a EXCEPT ![var] = IF lit > 0 THEN 1 ELSE -1],
                           Append(saved, << var, 0 >>))
             ELSE PureLoop(lits, i + 1, a, saved)

\* NextUnassigned without the loop: the search stays at startIndex.
NextUnassignedNoSkip(a, n, nextVar) == nextVar

\* The loop `while (nextVar <= numVars && assignment[nextVar-1] != 0) nextVar++`.
RECURSIVE NextUnassigned(_, _, _)
NextUnassigned(a, n, nextVar) ==
    IF nextVar <= n /\ a[nextVar] # 0 THEN NextUnassigned(a, n, nextVar + 1)
    ELSE nextVar

\* RecurseIndex passing nextVar itself.
RecurseIndexSame(nextVar) == nextVar

\* RecurseIndex stepping over the variable after nextVar.
RecurseIndexSkips(nextVar) == nextVar + 2

\* The third argument of the two recursive calls solve(problem, assignment, nextVar+1).
RecurseIndex(nextVar) == nextVar + 1

\* A call of solve that has not yet executed anything.  `entry` is history:
\* the assignment at the moment of the call.
NewFrame(varIndex, a) ==
    [varIndex |-> varIndex, at |-> "start", saved |-> << >>, nextVar |-> 0, entry |-> a]

\* No analysis has been called on the current (clauses, assignment).
NoCall == [fn |-> "none", val |-> FALSE]

NoRet == [valid |-> FALSE, val |-> FALSE, entry |-> << >>, path |-> ""]

\* `return val` in the innermost call, with the assignment as the call leaves it.
\* `entry` and `path` are history: the assignment at the call and the return taken.
Return(val, a, path) ==
    /\ stack' = Front(stack)
    /\ assignment' = a
    /\ ret' = [valid |-> TRUE, val |-> val, entry |-> Top(stack).entry, path |-> path]

\* The innermost call moves to position `at` of its body.
Goto(at, saved, nextVar) ==
    stack' = [stack EXCEPT ![Len(stack)] =
                 [@ EXCEPT !.at = at, !.saved = saved, !.nextVar = nextVar]]

Running(at) == pc = "solve" /\ stack # << >> /\ Top(stack).at = at

-----------------------------------------------------------------------------
\* The program: parseDIMACS

Init ==
    /\ pc = "parse"
    /\ headerFound = FALSE
    /\ numVars = 0
    /\ clauses = << >>
    /\ assignment = << >>
    /\ stack = << >>
    /\ ret = NoRet
    /\ result = FALSE
    /\ coutStatus = ""
    /\ coutValues = << >>
    /\ exitCode = -1
    /\ parsed = FALSE
    /\ emptyLine = FALSE
    /\ oobRead = FALSE
    /\ threw = FALSE
    /\ solveInvoked = FALSE
    /\ fnResult = NoCall

\* An empty line, a `c` line, or any other line read before the `p` line:
\* the loop continues without touching the problem.
SkipLine ==
    /\ pc = "parse"
    /\ UNCHANGED vars

\* The `p` line.  The input carries one `p` line.
ReadHeader ==
    /\ pc = "parse"
    /\ ~headerFound
    /\ \E declared \in DeclaredVars : numVars' = declared
    /\ headerFound' = TRUE
    /\ UNCHANGED <<pc, clauses, assignment, stack, ret, result, coutStatus, coutValues,
                   exitCode, parsed, emptyLine, oobRead, threw, solveInvoked, fnResult>>

\* The process is ended by a fault: nothing is written and there is no exit status.
Crash ==
    /\ pc' = "crashed"
    /\ numVars' = 0
    /\ clauses' = << >>
    /\ assignment' = << >>
    /\ stack' = << >>
    /\ ret' = NoRet
    /\ UNCHANGED <<headerFound, result, coutStatus, coutValues, exitCode, parsed,
                   threw, solveInvoked, fnResult>>

\* A clause line after the `p` line.
ReadClauseLine ==
    /\ pc = "parse"
    /\ headerFound
    /\ Len(clauses) < MaxClauses
    /\ \E raw \in RawClauses :
          LET clause == UniqueClause(SortClause(raw))
              n == ScanVars(raw, 1, numVars)
              keep ==
                  /\ pc' = pc
                  /\ numVars' = n
                  /\ UNCHANGED <<assignment, stack, ret, headerFound, result, coutStatus,
                                 coutValues, exitCode, parsed, threw, solveInvoked, fnResult>>
          IN  IF clause = << >>
              THEN /\ emptyLine' = TRUE
                   /\ oobRead' = TRUE
                   /\ \E outcome \in EmptyScanOutcomes :
                         CASE outcome = "crash" -> Crash
                           [] outcome = "tautology" -> keep /\ clauses' = clauses
                           [] outcome = "stored" -> keep /\ clauses' = Append(clauses, clause)
              ELSE /\ keep
                   /\ clauses' = IF TautologyScan(clause) THEN clauses
                                 ELSE Append(clauses, clause)
                   /\ UNCHANGED <<emptyLine, oobRead>>

\* getline fails at the end of the input: parseDIMACS returns the problem.
EndOfInput ==
    /\ pc = "parse"
    /\ pc' = "main"
    /\ parsed' = TRUE
    /\ UNCHANGED <<headerFound, numVars, clauses, assignment, stack, ret, result, coutStatus,
                   coutValues, exitCode, emptyLine, oobRead, threw, solveInvoked, fnResult>>

-----------------------------------------------------------------------------
\* The program: main

\* MainReject falling through to `return 0`.
MainRejectExitZero ==
    /\ pc = "main"
    /\ numVars <= 0
    /\ coutStatus' = "s ERROR"
    /\ exitCode' = 0
    /\ pc' = "done"
    /\ UNCHANGED <<headerFound, numVars, clauses, assignment, stack, ret, result, coutValues,
                   parsed, emptyLine, oobRead, threw, solveInvoked, fnResult>>

\* `if (problem.numVars <= 0) { cout << "s ERROR"; return 1; }`
MainReject ==
    /\ pc = "main"
    /\ numVars <= 0
    /\ coutStatus' = "s ERROR"
    /\ exitCode' = 1
    /\ pc' = "done"
    /\ UNCHANGED <<headerFound, numVars, clauses, assignment, stack, ret, result, coutValues,
                   parsed, emptyLine, oobRead, threw, solveInvoked, fnResult>>

\* `vector<int> assignment(problem.numVars, 0); solve(problem, assignment, 1)`
MainCallSolve ==
    /\ pc = "main"
    /\ numVars > 0
    /\ assignment' = [v \in 1..numVars |-> 0]
    /\ stack' = << NewFrame(1, [v \in 1..numVars |-> 0]) >>
    /\ solveInvoked' = TRUE
    /\ pc' = "solve"
    /\ UNCHANGED <<headerFound, numVars, clauses, ret, result, coutStatus, coutValues,
                   exitCode, parsed, emptyLine, oobRead, threw, fnResult>>

\* The "v" line: assignment[i] * (i+1) for i = 0..numVars-1, then 0.
ValueLine(a, n) == [i \in 1..(n + 1) |-> IF i <= n THEN a[i] * i ELSE 0]

\* solve has returned to main: the verdict is written and main returns 0.
MainReport ==
    /\ pc = "solve"
    /\ stack = << >>
    /\ ret.valid
    /\ result' = ret.val
    /\ ret' = NoRet
    /\ IF ret.val
       THEN /\ coutStatus' = "s SATISFIABLE"
            /\ coutValues' = ValueLine(assignment, numVars)
       ELSE /\ coutStatus' = "s UNSATISFIABLE"
            /\ coutValues' = << >>
    /\ exitCode' = 0
    /\ pc' = "done"
    /\ UNCHANGED <<headerFound, numVars, clauses, assignment, stack, parsed, emptyLine,
                   oobRead, threw, solveInvoked, fnResult>>

\* An allocation (a vector or string growing in parseDIMACS, the assignment
\* vector in main, the vectors of solve and of the analyses) throws
\* std::bad_alloc.  The stack unwinds to the handlers of main, which destroy
\* problem and assignment, write "s ERROR" and fall through to `return 0`.
Throw ==
    /\ \/ pc = "parse"
       \/ pc = "main" /\ numVars > 0
       \/ pc = "solve" /\ stack # << >>
    /\ threw' = TRUE
    /\ coutStatus' = "s ERROR"
    /\ exitCode' = 0
    /\ pc' = "done"
    /\ clauses' = << >>
    /\ assignment' = << >>
    /\ stack' = << >>
    /\ ret' = NoRet
    /\ UNCHANGED <<headerFound, numVars, result, coutValues, parsed, emptyLine, oobRead,
                   solveInvoked, fnResult>>

-----------------------------------------------------------------------------
\* The program: solve, one action per stretch of its body between calls

solveFrame == <<pc, headerFound, numVars, clauses, result, coutStatus, coutValues, exitCode,
                parsed, emptyLine, oobRead, threw, solveInvoked, fnResult>>

\* `if (checkConflict(problem, assignment)) return false;`
SolveStart ==
    /\ Running("start")
    /\ IF checkConflict(clauses, assignment)
       THEN Return(FALSE, assignment, "conflict")
       ELSE /\ Goto("unit", << >>, 0)
            /\ UNCHANGED <<assignment, ret>>
    /\ UNCHANGED solveFrame

\* Unit propagation: findUnitClauses once, then the loop that assigns each
\* forced literal and re-checks; on a conflict the undo list is replayed and
\* the call returns false.
SolveUnits ==
    /\ Running("unit")
    /\ LET unitLiterals == findUnitClauses(clauses, assignment)
           r == UnitLoop(clauses, unitLiterals, 1, assignment, Top(stack).saved)
       IN  IF r.conflict
           THEN Return(FALSE, r.a, "unit")
           ELSE /\ Goto("pure", r.saved, 0)
                /\ assignment' = r.a
                /\ ret' = ret
    /\ UNCHANGED solveFrame

\* Pure literal elimination: findPureLiterals once, then the loop that assigns.
SolvePure ==
    /\ Running("pure")
    /\ LET pureLiterals == findPureLiterals(clauses, assignment, numVars)
           r == PureLoop(pureLiterals, 1, assignment, Top(stack).saved)
       IN  /\ Goto("terminal", r.saved, 0)
           /\ assignment' = r.a
    /\ UNCHANGED ret
    /\ UNCHANGED solveFrame

\* The two terminal checks around the search for nextVar: either
\* `return !checkConflict(problem, assignment)` or the call goes on to branch.
SolveTerminal ==
    /\ Running("terminal")
    /\ LET varIndex == Top(stack).varIndex
           nextVar == IF varIndex > numVars THEN varIndex
                      ELSE NextUnassigned(assignment, numVars, varIndex)
       IN  IF varIndex > numVars \/ nextVar > numVars
           THEN Return(~checkConflict(clauses, assignment), assignment, "terminal")
           ELSE /\ Goto("branch", Top(stack).saved, nextVar)
                /\ UNCHANGED <<assignment, ret>>
    /\ UNCHANGED solveFrame

\* `assignment[nextVar-1] = 1; solve(problem, assignment, nextVar+1)`
SolveBranchTrue ==
    /\ Running("branch")
    /\ LET nextVar == Top(stack).nextVar
           a == [assignment EXCEPT ![nextVar] = 1]
       IN  /\ assignment' = a
           /\ stack' = Append([stack EXCEPT ![Len(stack)] = [@ EXCEPT !.at = "afterTrue"]],
                              NewFrame(RecurseIndex(nextVar), a))
    /\ UNCHANGED ret
    /\ UNCHANGED solveFrame

\* The TRUE call has returned: `return true`, or
\* `assignment[nextVar-1] = -1; solve(problem, assignment, nextVar+1)`.
SolveAfterTrue ==
    /\ Running("afterTrue")
    /\ ret.valid
    /\ IF ret.val
       THEN Return(TRUE, assignment, "true")
       ELSE LET nextVar == Top(stack).nextVar
                a == [assignment EXCEPT ![nextVar] = -1]
            IN  /\ assignment' = a
                /\ stack' = Append([stack EXCEPT ![Len(stack)] = [@ EXCEPT !.at = "afterFalse"]],
                                   NewFrame(RecurseIndex(nextVar), a))
                /\ ret' = NoRet
    /\ UNCHANGED solveFrame

\* The FALSE call has returned: `return true`, or nextVar is reset, the undo
\* list is replayed and the call returns false.
SolveAfterFalse ==
    /\ Running("afterFalse")
    /\ ret.valid
    /\ IF ret.val
       THEN Return(TRUE, assignment, "true")
       ELSE Return(FALSE,
                   Restore([assignment EXCEPT ![Top(stack).nextVar] = 0], Top(stack).saved, 1),
                   "exhausted")
    /\ UNCHANGED solveFrame

SolveStep ==
    \/ SolveStart
    \/ SolveUnits
    \/ SolvePure
    \/ SolveTerminal
    \/ SolveBranchTrue
    \/ SolveAfterTrue
    \/ SolveAfterFalse

-----------------------------------------------------------------------------
\* The program

Next ==
    \/ SkipLine
    \/ ReadHeader
    \/ ReadClauseLine
    \/ EndOfInput
    \/ MainReject
    \/ MainCallSolve
    \/ SolveStart
    \/ SolveUnits
    \/ SolvePure
    \/ SolveTerminal
    \/ SolveBranchTrue
    \/ SolveAfterTrue
    \/ SolveAfterFalse
    \/ MainReport
    \/ Throw

Spec == Init /\ [][Next]_vars

-----------------------------------------------------------------------------
\* The analyses called directly on a constructed problem and any assignment

MaxPureClauses == 2    \* most clauses of a problem handed to an analysis directly

Values == { -1, 0, 1 }

InitPure ==
    /\ pc = "pure"
    /\ headerFound = TRUE
    /\ numVars \in 1..MaxVar
    /\ clauses = << >>
    /\ assignment \in [1..numVars -> Values]
    /\ stack = << >>
    /\ ret = NoRet
    /\ result = FALSE
    /\ coutStatus = ""
    /\ coutValues = << >>
    /\ exitCode = -1
    /\ parsed = FALSE
    /\ emptyLine = FALSE
    /\ oobRead = FALSE
    /\ threw = FALSE
    /\ solveInvoked = FALSE
    /\ fnResult = NoCall

pureFrame == <<pc, headerFound, numVars, stack, ret, result, coutStatus, coutValues,
               exitCode, parsed, emptyLine, oobRead, threw, solveInvoked>>

\* Clause construction (sort, unique, tautology scan) of one more raw clause
\* over the variables 1..numVars; a clause without literals is kept.
AddClause ==
    /\ pc = "pure"
    /\ Len(clauses) < MaxPureClauses
    /\ \E raw \in RawClauses :
          LET clause == UniqueClause(SortClause(raw))
          IN  /\ ScanVars(raw, 1, numVars) = numVars
              /\ clause = << >> \/ ~TautologyScan(clause)
              /\ clauses' = Append(clauses, clause)
    /\ fnResult' = NoCall
    /\ UNCHANGED assignment
    /\ UNCHANGED pureFrame

CallCheckConflict ==
    /\ pc = "pure"
    /\ fnResult' = [fn |-> "checkConflict", val |-> checkConflict(clauses, assignment)]
    /\ UNCHANGED <<clauses, assignment>>
    /\ UNCHANGED pureFrame

CallFindUnitClauses ==
    /\ pc = "pure"
    /\ fnResult' = [fn |-> "findUnitClauses", val |-> findUnitClauses(clauses, assignment)]
    /\ UNCHANGED <<clauses, assignment>>
    /\ UNCHANGED pureFrame

CallFindPureLiterals ==
    /\ pc = "pure"
    /\ fnResult' = [fn |-> "findPureLiterals",
                    val |-> findPureLiterals(clauses, assignment, numVars)]
    /\ UNCHANGED <<clauses, assignment>>
    /\ UNCHANGED pureFrame

\* Step 3 of solve on its own: findPureLiterals, then the loop that assigns.
\* val is the assignment the loop leaves; the assignment before it is kept.
CallAssignPure ==
    /\ pc = "pure"
    /\ fnResult' = [fn |-> "assignPure",
                    val |-> PureLoop(findPureLiterals(clauses, assignment, numVars),
                                     1, assignment, << >>).a]
    /\ UNCHANGED <<clauses, assignment>>
    /\ UNCHANGED pureFrame

\* Clause construction (lines 53-68) applied to the clauses cls[k], cls[k+1], ...
\* in turn: the clauses it stores.  outcomes[k] is what the tautology scan does
\* on cls[k] when cls[k] has no literals.
RECURSIVE Rebuild(_, _, _)
Rebuild(cls, outcomes, k) ==
    IF k > Len(cls) THEN << >>
    ELSE LET clause == UniqueClause(SortClause(cls[k]))
             tautology == IF clause = << >> THEN outcomes[k] = "tautology"
                          ELSE TautologyScan(clause)
         IN  (IF tautology THEN << >> ELSE << clause >>) \o Rebuild(cls, outcomes, k + 1)

\* Clause construction run again on the stored clauses.  val is the clause
\* list it stores; fn is "constructFault" when a scan faulted.
CallReconstruct ==
    /\ pc = "pure"
    /\ \E outcomes \in [1..Len(clauses) -> EmptyScanOutcomes] :
          IF \E k \in 1..Len(clauses) : clauses[k] = << >> /\ outcomes[k] = "crash"
          THEN fnResult' = [fn |-> "constructFault", val |-> << >>]
          ELSE fnResult' = [fn |-> "construct", val |-> Rebuild(clauses, outcomes, 1)]
    /\ UNCHANGED <<clauses, assignment>>
    /\ UNCHANGED pureFrame

NextPure ==
    \/ AddClause
    \/ CallCheckConflict
    \/ CallFindUnitClauses
    \/ CallFindPureLiterals
    \/ CallAssignPure
    \/ CallReconstruct

SpecPure == InitPure /\ [][NextPure]_vars

-----------------------------------------------------------------------------
\* parseDIMACS on its own, on an input of one `p` line followed by clause
\* lines.  fnResult.val is history: the count the `p` line declared and the
\* largest |literal| read on a clause line so far.

InitParse ==
    /\ pc = "construct"
    /\ headerFound = FALSE
    /\ numVars = 0
    /\ clauses = << >>
    /\ assignment = << >>
    /\ stack = << >>
    /\ ret = NoRet
    /\ result = FALSE
    /\ coutStatus = ""
    /\ coutValues = << >>
    /\ exitCode = -1
    /\ parsed = FALSE
    /\ emptyLine = FALSE
    /\ oobRead = FALSE
    /\ threw = FALSE
    /\ solveInvoked = FALSE
    /\ fnResult = NoCall

parseFrame == <<assignment, stack, ret, result, coutStatus, coutValues, exitCode, threw,
                solveInvoked>>

\* The largest |literal| of a line (0 for a line without literals).
LargestVar(raw) ==
    IF raw = << >> THEN 0
    ELSE CHOOSE m \in { Abs(raw[i]) : i \in 1..Len(raw) } :
             \A i \in 1..Len(raw) : Abs(raw[i]) <= m

\* The `p` line (lines 33-38).
ParseHeader ==
    /\ pc = "construct"
    /\ ~headerFound
    /\ \E declared \in DeclaredVars :
          /\ numVars' = declared
          /\ fnResult' = [fn |-> "parseDIMACS", val |-> [declared |-> declared, maxLit |-> 0]]
    /\ headerFound' = TRUE
    /\ UNCHANGED <<pc, clauses, parsed, emptyLine, oobRead>>
    /\ UNCHANGED parseFrame

\* A clause line after the `p` line (lines 39-69).
ParseClauseLine ==
    /\ pc = "construct"
    /\ headerFound
    /\ Len(clauses) < MaxClauses
    /\ \E raw \in RawClauses :
          LET clause == UniqueClause(SortClause(raw))
              seen == IF LargestVar(raw) > fnResult.val.maxLit THEN LargestVar(raw)
                      ELSE fnResult.val.maxLit
          IN  /\ numVars' = ScanVars(raw, 1, numVars)
              /\ fnResult' = [fnResult EXCEPT !.val.maxLit = seen]
              /\ IF clause = << >>
                 THEN /\ emptyLine' = TRUE
                      /\ oobRead' = TRUE
                      /\ \E outcome \in EmptyScanOutcomes :
                            CASE outcome = "crash" -> pc' = "crashed" /\ clauses' = clauses
                              [] outcome = "tautology" -> pc' = pc /\ clauses' = clauses
                              [] outcome = "stored" -> pc' = pc /\ clauses' = Append(clauses, clause)
                 ELSE /\ pc' = pc
                      /\ clauses' = IF TautologyScan(clause) THEN clauses
                                    ELSE Append(clauses, clause)
                      /\ UNCHANGED <<emptyLine, oobRead>>
    /\ UNCHANGED <<headerFound, parsed>>
    /\ UNCHANGED parseFrame

\* The end of the input: parseDIMACS returns the problem (lines 27, 72).
ParseEnd ==
    /\ pc = "construct"
    /\ headerFound
    /\ pc' = "constructed"
    /\ parsed' = TRUE
    /\ UNCHANGED <<headerFound, numVars, clauses, emptyLine, oobRead, fnResult>>
    /\ UNCHANGED parseFrame

NextParse ==
    \/ ParseHeader
    \/ ParseClauseLine
    \/ ParseEnd

SpecParse == InitParse /\ [][NextParse]_vars

-----------------------------------------------------------------------------
\* Properties

\* main has received the return value of the top-level call of solve.
Solved == pc = "done" /\ solveInvoked /\ ~threw

\* Every clause has a literal made true by a.
Satisfies(cls, a) ==
    \A k \in 1..Len(cls) : \E i \in 1..Len(cls[k]) :
        \/ cls[k][i] > 0 /\ a[cls[k][i]] = 1
        \/ cls[k][i] < 0 /\ a[-cls[k][i]] = -1

\* Some total true/false assignment of 1..n satisfies every clause.
Satisfiable(cls, n) == \E a \in [1..n -> { -1, 1 }] : Satisfies(cls, a)

\* C1 (completeness): when the top-level call solve(problem, all-UNASSIGNED, 1)
\* has returned, its result is true if and only if some total assignment of
\* the variables 1..numVars satisfies every clause of the problem.
C1_Completeness == Solved => (result <=> Satisfiable(clauses, numVars))

\* C1: a search over a full problem that answered true although the TRUE
\* branch of variable 1 had failed.
C1_Witness ==
    /\ Solved /\ result
    /\ Len(clauses) = MaxClauses
    /\ assignment[1] = -1
    /\ ~Satisfiable(clauses \o << << 1 >> >>, numVars)

\* C2 (soundness): when the top-level call has returned true, the assignment
\* it leaves gives every clause of the problem a satisfied literal; no problem
\* with a clause without literals is answered true.
C2_Soundness ==
    (Solved /\ result) =>
        /\ Satisfies(clauses, assignment)
        /\ \A k \in 1..Len(clauses) : clauses[k] # << >>

\* C2: a true answer for a problem with as many clauses as the bound allows,
\* over both polarities of a variable.
C2_Witness ==
    /\ Solved /\ result
    /\ Len(clauses) = MaxClauses
    /\ \E j, k \in 1..Len(clauses) :
          /\ \E i \in 1..Len(clauses[j]) : clauses[j][i] = 1
          /\ \E i \in 1..Len(clauses[k]) : clauses[k][i] = -1

\* C3 (backtracking purity): when a call of solve (top-level or recursive)
\* has just returned false, every variable has the value it had immediately
\* before that call.
C3_BacktrackingPurity == (ret.valid /\ ~ret.val) => assignment = ret.entry

\* C3: a call that assigned by unit propagation, branched, had both branches
\* fail and returned false.
C3_Witness ==
    /\ ret.valid /\ ~ret.val
    /\ ret.path = "exhausted"
    /\ \E v \in 1..numVars : ret.entry[v] = 0

\* C3: a call that returned false out of the unit propagation loop.
C3_WitnessUnit == ret.valid /\ ~ret.val /\ ret.path = "unit"

\* C4: a clause line without literals is legal input: the scan reads nothing
\* outside the clause, the clause is stored, and the verdict is UNSATISFIABLE.
C4_EmptyClauseLegal ==
    emptyLine =>
        /\ ~oobRead
        /\ pc # "crashed"
        /\ (pc = "done" /\ ~threw) => coutStatus = "s UNSATISFIABLE"

\* C5: every stored clause is free of equal literals and of complementary
\* literals.
C5_StoredClausesClean ==
    \A k \in 1..Len(clauses) : \A i, j \in 1..Len(clauses[k]) :
        i # j => (clauses[k][i] # clauses[k][j] /\ clauses[k][i] # -clauses[k][j])

\* C6: when the top-level call has returned true, no variable is UNASSIGNED and
\* the "v" line lists, for i = 1..numVars in order, i signed by the truth value
\* of variable i, then 0.
C6_TotalOutput ==
    (Solved /\ result) =>
        /\ coutStatus = "s SATISFIABLE"
        /\ Len(coutValues) = numVars + 1
        /\ coutValues[numVars + 1] = 0
        /\ \A v \in 1..numVars :
              /\ assignment[v] \in { -1, 1 }
              /\ Abs(coutValues[v]) = v
              /\ coutValues[v] > 0 <=> assignment[v] = 1

\* C6: a true answer for a problem with a variable that occurs in no stored
\* clause and one that occurs in both polarities.
C6_Witness ==
    /\ Solved /\ result
    /\ \E v \in 1..numVars :
          \A k \in 1..Len(clauses) : \A i \in 1..Len(clauses[k]) : Abs(clauses[k][i]) # v
    /\ \E k \in 1..Len(clauses) : clauses[k] # << >>

\* The top-level call of solve has returned to main.
Returned == stack = << >> /\ ret.valid

\* The calls of solve that are active: each was made with a startIndex greater
\* than its caller's and at most numVars + 1, and at most numVars of them are
\* nested beneath the top-level call.
RecursionBounded ==
    /\ \A i \in 1..Len(stack) : stack[i].varIndex <= numVars + 1
    /\ \A i \in 2..Len(stack) : stack[i].varIndex > stack[i - 1].varIndex
    /\ Len(stack) <= numVars + 1

\* The most steps a call of solve made with startIndex k can take, its
\* recursive calls included: 4 when it ends at the terminal check, else its own
\* 7 and two recursive calls with a greater startIndex.
RECURSIVE CallBudget(_, _)
CallBudget(k, n) == IF k > n THEN 4 ELSE 7 + 2 * CallBudget(k + 1, n)

\* The steps an active call can still take, the calls it has yet to make
\* included and the call it is waiting for excluded.
FrameBudget(f, n) ==
    CASE f.at = "start"      -> CallBudget(f.varIndex, n)
      [] f.at = "unit"       -> CallBudget(f.varIndex, n) - 1
      [] f.at = "pure"       -> CallBudget(f.varIndex, n) - 2
      [] f.at = "terminal"   -> CallBudget(f.varIndex, n) - 3
      [] f.at = "branch"     -> 3 + 2 * CallBudget(f.varIndex + 1, n)
      [] f.at = "afterTrue"  -> 2 + CallBudget(f.varIndex + 1, n)
      [] f.at = "afterFalse" -> 1

RECURSIVE StackBudget(_, _, _)
StackBudget(st, n, i) ==
    IF i > Len(st) THEN 0 ELSE FrameBudget(st[i], n) + StackBudget(st, n, i + 1)

\* The steps left until the top-level call has returned its value to main.
Variant == IF pc = "solve" THEN 1 + StackBudget(stack, numVars, 1) ELSE 0

\* The guards of the steps of solve and of MainReport: the innermost call is at
\* a position from which it goes on by itself, or the call it waited for (for
\* main: the top-level call) has returned.
SolveCanStep ==
    IF stack = << >> THEN ret.valid
    ELSE \/ Top(stack).at \in { "start", "unit", "pure", "terminal", "branch" }
         \/ Top(stack).at \in { "afterTrue", "afterFalse" } /\ ret.valid

\* C7 (termination): the active calls always satisfy RecursionBounded; while
\* solve runs a step is always possible, and every step lowers Variant, a
\* natural number, so the top-level call returns after finitely many steps.
C7_Termination ==
    /\ [](RecursionBounded /\ Variant >= 0)
    /\ [](pc = "solve" => SolveCanStep)
    /\ [][pc = "solve" => Variant' < Variant]_vars

\* C7: numVars calls nested beneath the top-level call, the innermost made
\* with startIndex numVars + 1.
C7_Witness ==
    /\ pc = "solve"
    /\ numVars >= 2
    /\ Len(stack) = numVars + 1
    /\ Top(stack).varIndex = numVars + 1

\* C8: after an exception in parsing or solving, "s ERROR" is on cout and the
\* exit status is not 0.
C8_FailureExitsNonZero ==
    (pc = "done" /\ threw) => (coutStatus = "s ERROR" /\ exitCode # 0)

\* C9: once parseDIMACS has returned numVars <= 0, solve is never called and no
\* verdict is written; the program ends with "s ERROR" and exit status 1.
C9_NoVariablesRejected ==
    (parsed /\ numVars <= 0) =>
        /\ ~solveInvoked
        /\ coutStatus \in { "", "s ERROR" }
        /\ pc \in { "main", "done" }
        /\ pc = "done" => (coutStatus = "s ERROR" /\ exitCode = 1)

\* C9: the program has ended on an input without a `p` line.
C9_Witness == pc = "done" /\ parsed /\ numVars <= 0 /\ ~headerFound

\* C9: the program has ended on an input whose `p` line declares a negative count.
C9_WitnessNegative == pc = "done" /\ parsed /\ numVars < 0 /\ headerFound

\* Every literal of the clause is assigned and false under a.
Falsified(clause, a) ==
    \A i \in 1..Len(clause) :
        \/ clause[i] > 0 /\ a[clause[i]] = -1
        \/ clause[i] < 0 /\ a[-clause[i]] = 1

\* C10 (conflict detector): checkConflict returns true if and only if some
\* clause has every literal falsified; a problem with a clause without
\* literals conflicts under every assignment.
C10_ConflictDetector ==
    fnResult.fn = "checkConflict" =>
        /\ fnResult.val <=> \E k \in 1..Len(clauses) : Falsified(clauses[k], assignment)
        /\ (\E k \in 1..Len(clauses) : clauses[k] = << >>) => fnResult.val

\* C10: a conflict under a partial assignment, in the second clause, the
\* first clause having a falsified literal before an unassigned one.
C10_Witness ==
    /\ fnResult.fn = "checkConflict" /\ fnResult.val
    /\ \E v \in 1..numVars : assignment[v] = 0
    /\ Len(clauses) = 2
    /\ Len(clauses[1]) >= 2
    /\ assignment[Abs(clauses[1][1])] # 0
    /\ \E i \in 1..Len(clauses[1]) : assignment[Abs(clauses[1][i])] = 0
    /\ Len(clauses[2]) >= 1


\* The clause has a literal made true by a.
HasSatisfied(clause, a) ==
    \E i \in 1..Len(clause) :
        \/ clause[i] > 0 /\ a[clause[i]] = 1
        \/ clause[i] < 0 /\ a[-clause[i]] = -1

\* The positions of the clause whose variable is unassigned under a.
UnassignedAt(clause, a) ==
    { i \in 1..Len(clause) : a[Abs(clause[i])] = 0 }

\* What a clause owes to the unit propagator: its unassigned literal when it has
\* no satisfied literal and exactly one unassigned literal, else nothing.
ForcedLiteral(clause, a) ==
    IF ~HasSatisfied(clause, a) /\ Cardinality(UnassignedAt(clause, a)) = 1
    THEN << clause[CHOOSE i \in UnassignedAt(clause, a) : TRUE] >>
    ELSE << >>

RECURSIVE ForcedLiterals(_, _, _)
ForcedLiterals(cls, a, k) ==
    IF k > Len(cls) THEN << >>
    ELSE ForcedLiteral(cls[k], a) \o ForcedLiterals(cls, a, k + 1)

\* C11 (unit propagator): one call of findUnitClauses returns, in clause order,
\* the unassigned literal of each clause that has no satisfied literal and
\* exactly one unassigned literal, and nothing for any other clause.
C11_UnitPropagator ==
    fnResult.fn = "findUnitClauses" =>
        fnResult.val = ForcedLiterals(clauses, assignment, 1)

\* C11: the first clause has an unassigned literal before a satisfied one and
\* gives nothing; the second has a falsified literal before its only
\* unassigned one and gives that literal.
C11_Witness ==
    /\ fnResult.fn = "findUnitClauses"
    /\ Len(clauses) = 2
    /\ Len(clauses[1]) >= 2 /\ Len(clauses[2]) >= 2
    /\ assignment[Abs(clauses[1][1])] = 0
    /\ HasSatisfied(clauses[1], assignment)
    /\ assignment[Abs(clauses[2][1])] # 0
    /\ fnResult.val = << clauses[2][2] >>

\* The literals of variable v in the clauses without a satisfied literal.
OpenOccurrences(cls, a, v) ==
    { l \in { v, -v } :
        \E k \in 1..Len(cls) :
            /\ ~HasSatisfied(cls[k], a)
            /\ \E i \in 1..Len(cls[k]) : cls[k][i] = l }

RECURSIVE ExpectedPure(_, _, _, _)
ExpectedPure(cls, a, n, v) ==
    IF v > n THEN << >>
    ELSE (IF a[v] = 0 /\ Cardinality(OpenOccurrences(cls, a, v)) = 1
          THEN << CHOOSE l \in OpenOccurrences(cls, a, v) : TRUE >>
          ELSE << >>)
         \o ExpectedPure(cls, a, n, v + 1)


\* C12 (pure-literal eliminator): findPureLiterals returns, in increasing
\* variable order and once per variable, the literal of each unassigned
\* variable that occurs in a clause without a satisfied literal and occurs in
\* such clauses in one polarity only; nothing for any other variable.
C12_PureLiteralEliminator ==
    fnResult.fn = "findPureLiterals" =>
        fnResult.val = ExpectedPure(clauses, assignment, numVars, 1)

\* C12: a literal is reported for a variable that also occurs, in the other
\* polarity, in a clause that has a satisfied literal.
C12_Witness ==
    /\ fnResult.fn = "findPureLiterals"
    /\ \E j \in 1..Len(fnResult.val) :
          \E k \in 1..Len(clauses) :
              /\ HasSatisfied(clauses[k], assignment)
              /\ \E i \in 1..Len(clauses[k]) : clauses[k][i] = -fnResult.val[j]

\* C13 (pure-literal safety): when no clause is falsified, assigning every
\* literal of one findPureLiterals call leaves no clause falsified and every
\* clause that had a satisfied literal still has one.
C13_PureLiteralSafety ==
    (/\ fnResult.fn = "assignPure"
     /\ \A k \in 1..Len(clauses) : ~Falsified(clauses[k], assignment)) =>
        /\ \A k \in 1..Len(clauses) : ~Falsified(clauses[k], fnResult.val)
        /\ \A k \in 1..Len(clauses) :
              HasSatisfied(clauses[k], assignment) => HasSatisfied(clauses[k], fnResult.val)

\* C13: no clause was falsified, and the loop made false a literal of a clause
\* that had a satisfied literal.
C13_Witness ==
    /\ fnResult.fn = "assignPure"
    /\ \A k \in 1..Len(clauses) : ~Falsified(clauses[k], assignment)
    /\ \E k \in 1..Len(clauses) :
          /\ HasSatisfied(clauses[k], assignment)
          /\ \E i \in 1..Len(clauses[k]) :
                /\ assignment[Abs(clauses[k][i])] = 0
                /\ fnResult.val[Abs(clauses[k][i])] # 0
                /\ ~LitSatisfied(clauses[k][i], fnResult.val[Abs(clauses[k][i])])


\* One step of the program, seen from the branch point of the innermost call
\* (parent) to the call it makes: a recursive call is made on the smallest
\* unassigned variable at or after the caller's startIndex, with that variable
\* set TRUE first and FALSE only once the TRUE call has returned false, and with
\* startIndex nextVar + 1; a call that receives true returns true at once and
\* leaves the assignment as it is.
BranchingStep ==
    /\ (stack # << >> /\ Len(stack') = Len(stack) + 1) =>
          LET parent == Top(stack)
              nextVar == parent.nextVar
          IN  /\ nextVar \in parent.varIndex..numVars
              /\ \A v \in parent.varIndex..(nextVar - 1) : assignment[v] # 0
              /\ Top(stack').varIndex = nextVar + 1
              /\ Top(stack').at = "start"
              /\ IF parent.at = "branch"
                 THEN /\ assignment[nextVar] = 0
                      /\ assignment' = [assignment EXCEPT ![nextVar] = 1]
                 ELSE /\ parent.at = "afterTrue"
                      /\ ret.valid /\ ~ret.val
                      /\ assignment[nextVar] = 1
                      /\ assignment' = [assignment EXCEPT ![nextVar] = -1]
    /\ (/\ pc = "solve" /\ pc' = "solve"
        /\ stack # << >>
        /\ Top(stack).at \in { "afterTrue", "afterFalse" }
        /\ ret.valid /\ ret.val) =>
          /\ stack' = Front(stack)
          /\ ret'.valid /\ ret'.val
          /\ assignment' = assignment

\* C14 (branching order): every step of the program is a BranchingStep.
C14_BranchingOrder == [][BranchingStep]_vars

\* C14: the FALSE call has just been made, on a variable found after skipping
\* an assigned one.
C14_Witness ==
    /\ pc = "solve"
    /\ Len(stack) >= 2
    /\ Top(stack).at = "start"
    /\ stack[Len(stack) - 1].at = "afterFalse"
    /\ stack[Len(stack) - 1].nextVar > stack[Len(stack) - 1].varIndex
    /\ assignment[stack[Len(stack) - 1].nextVar] = -1

\* C14: a call has just returned true because its FALSE call returned true.
C14_WitnessFalseSucceeds ==
    /\ ret.valid /\ ret.val /\ ret.path = "true"
    /\ \E v \in 1..numVars : ret.entry[v] = 0 /\ assignment[v] = -1


\* C15 (idempotence of clause construction): clause construction applied to
\* the stored clauses stores exactly the same clauses, in the same order with
\* the same literals.
C15_ConstructionIdempotent ==
    fnResult.fn \in { "construct", "constructFault" } =>
        (fnResult.fn = "construct" /\ fnResult.val = clauses)

\* The same for the clause lists in which every clause has a literal (checked
\* to locate the failure of C15 in the scan of a clause without literals).
ConstructionIdempotentOnNonEmpty ==
    (/\ fnResult.fn \in { "construct", "constructFault" }
     /\ \A k \in 1..Len(clauses) : clauses[k] # << >>) =>
        (fnResult.fn = "construct" /\ fnResult.val = clauses)


\* C16: after parsing one `p` line and clause lines, numVars is the larger of
\* the declared count and the largest |literal| read on a clause line (lines
\* of discarded clauses included; the declared count when no literal was read,
\* maxLit = 0), and every literal l of every stored clause has
\* 1 <= |l| <= numVars.
C16_NumVarsCoversLiterals ==
    (pc = "constructed" /\ fnResult.fn = "parseDIMACS") =>
        /\ numVars = IF fnResult.val.maxLit = 0 \/ fnResult.val.declared > fnResult.val.maxLit
                     THEN fnResult.val.declared ELSE fnResult.val.maxLit
        /\ \A k \in 1..Len(clauses) : \A i \in 1..Len(clauses[k]) :
              /\ clauses[k][i] # 0
              /\ Abs(clauses[k][i]) \in 1..numVars

\* C16: the declared count is smaller than the largest variable read, which
\* was read (as a negative literal) on the line of a discarded clause only.
C16_Witness ==
    /\ pc = "constructed" /\ fnResult.fn = "parseDIMACS"
    /\ fnResult.val.declared < fnResult.val.maxLit
    /\ clauses # << >>
    /\ \A k \in 1..Len(clauses) : \A i \in 1..Len(clauses[k]) :
          Abs(clauses[k][i]) < fnResult.val.maxLit


\* The innermost call is at the terminal check and the check applies:
\* startIndex > numVars, or no variable at or after startIndex is unassigned.
AtTerminalCheck ==
    /\ Running("terminal")
    /\ \A v \in Top(stack).varIndex..numVars : assignment[v] # 0

\* C18: whenever a call reaches the terminal check no clause is falsified, and
\* no call returns false from the terminal check.
C18_TerminalCheckTrue ==
    /\ AtTerminalCheck => \A k \in 1..Len(clauses) : ~Falsified(clauses[k], assignment)
    /\ (ret.valid /\ ret.path = "terminal") => ret.val

\* C18: a recursive call that assigned by unit propagation or pure literals has
\* returned from the terminal check.
C18_Witness ==
    /\ ret.valid /\ ret.path = "terminal"
    /\ stack # << >>
    /\ ret.entry # assignment

\* C19: while a call solve(problem, assignment, k) is active, from its entry
\* on, every variable with index < k is TRUE or FALSE.
C19_EarlierVarsAssigned ==
    pc = "solve" =>
        \A i \in 1..Len(stack) : \A v \in 1..numVars :
            v < stack[i].varIndex => assignment[v] # 0

\* C19: two nested calls are active beneath the top-level call, which is in
\* its FALSE branch; the innermost is at its entry.
C19_Witness ==
    /\ pc = "solve"
    /\ Len(stack) = 3
    /\ Top(stack).at = "start"
    /\ Top(stack).varIndex > 2
    /\ stack[1].at = "afterFalse"

====
